---- MODULE Spec2Model ----
(***************************************************************************)
(* Model of src/main.c: a REPL over an in-memory, append-only table of     *)
(* fixed-width rows stored in lazily allocated 4096-byte pages.            *)
(*                                                                         *)
(* Memory is modelled as sequences of bytes (TLA+ sequences are 1-based,   *)
(* so C offset k is position k+1).  A Row is the C struct: a uint32 id and *)
(* two char arrays; the id is held as its 4-byte object representation.    *)
(***************************************************************************)
EXTENDS Integers, Sequences, FiniteSets, TLC

\* ------------------------------------------------------------------ bounds
\* number of input lines the REPL reads in one run
MaxLines == 3

\* --------------------------------------------------------------- constants
COLUMN_USERNAME_SIZE == 32
COLUMN_EMAIL_SIZE == 255

ID_SIZE == 4
USERNAME_SIZE == COLUMN_USERNAME_SIZE
EMAIL_SIZE == COLUMN_EMAIL_SIZE
ID_OFFSET == 0
USERNAME_OFFSET == ID_OFFSET + ID_SIZE
EMAIL_OFFSET == USERNAME_OFFSET + USERNAME_SIZE
ROW_SIZE == ID_SIZE + USERNAME_SIZE + EMAIL_SIZE

PAGE_SIZE == 4096
TABLE_MAX_PAGES == 100
ROWS_PER_PAGE == PAGE_SIZE \div ROW_SIZE
TABLE_MAX_ROWS == ROWS_PER_PAGE * TABLE_MAX_PAGES

\* sizeof(Row): the three fields plus one byte of tail padding (alignment 4)
SIZEOF_ROW == ((ROW_SIZE + 3) \div 4) * 4

NULL == <<>>

PREPARE_SUCCESS == "PREPARE_SUCCESS"
PREPARE_SYNTAX_ERROR == "PREPARE_SYNTAX_ERROR"
PREPARE_UNRECOGNIZED_STATEMENT == "PREPARE_UNRECOGNIZED_STATEMENT"
PREPARE_NONE == "none"
STATEMENT_INSERT == "STATEMENT_INSERT"
STATEMENT_SELECT == "STATEMENT_SELECT"
\* the value of `statement.type` before prepare_statement has assigned it
STATEMENT_INDETERMINATE == "indeterminate"

Min(a, b) == IF a < b THEN a ELSE b
Max(a, b) == IF a < b THEN b ELSE a

\* ----------------------------------------------------------------- memory
\* n copies of byte b
Fill(b, n) == [i \in 1..n |-> b]

\* memcpy(mem + dst, src, n): bytes [dst, dst+n) of mem replaced by src[0..n)
Memcpy(mem, dst, src, n) ==
  SubSeq(mem, 1, dst) \o SubSeq(src, 1, n) \o SubSeq(mem, dst + n + 1, Len(mem))

\* object representation (little-endian) of the uint32_t x, 0 <= x < 2^31
U32Bytes(x) ==
  << x % 256, (x \div 256) % 256, (x \div 65536) % 256, (x \div 16777216) % 256 >>

\* object representation of the uint32_t 2^32 - x, 0 < x <= 2^31
U32NegBytes(x) ==
  LET b == U32Bytes(2147483647 - (x - 1)) IN [b EXCEPT ![4] = @ + 128]

\* ------------------------------------------------------------------- codec
\* serialize_row with the username copied one byte too far into the slot
serialize_row_shifted(row, mem, loc) ==
  LET m1 == Memcpy(mem, loc + ID_OFFSET, row.id, ID_SIZE)
      m2 == Memcpy(m1, loc + USERNAME_OFFSET + 1, row.username, USERNAME_SIZE)
  IN  Memcpy(m2, loc + EMAIL_OFFSET, row.email, EMAIL_SIZE)

\* serialize_row that ends the row with a terminating 0 after the email
serialize_row_terminated(row, mem, loc) ==
  LET m1 == Memcpy(mem, loc + ID_OFFSET, row.id, ID_SIZE)
      m2 == Memcpy(m1, loc + USERNAME_OFFSET, row.username, USERNAME_SIZE)
      m3 == Memcpy(m2, loc + EMAIL_OFFSET, row.email, EMAIL_SIZE)
  IN  Memcpy(m3, loc + ROW_SIZE, <<0>>, 1)

\* serialize_row without its third memcpy
serialize_row_no_email(row, mem, loc) ==
  LET m1 == Memcpy(mem, loc + ID_OFFSET, row.id, ID_SIZE)
  IN  Memcpy(m1, loc + USERNAME_OFFSET, row.username, USERNAME_SIZE)

serialize_row(row, mem, loc) ==
  LET m1 == Memcpy(mem, loc + ID_OFFSET, row.id, ID_SIZE)
      m2 == Memcpy(m1, loc + USERNAME_OFFSET, row.username, USERNAME_SIZE)
  IN  Memcpy(m2, loc + EMAIL_OFFSET, row.email, EMAIL_SIZE)

deserialize_row(mem, loc) ==
  [ id       |-> SubSeq(mem, loc + ID_OFFSET + 1, loc + ID_OFFSET + ID_SIZE),
    username |-> SubSeq(mem, loc + USERNAME_OFFSET + 1, loc + USERNAME_OFFSET + USERNAME_SIZE),
    email    |-> SubSeq(mem, loc + EMAIL_OFFSET + 1, loc + EMAIL_OFFSET + EMAIL_SIZE) ]

\* ------------------------------------------------------------------- table
new_table == [ num_rows |-> 0, pages |-> [i \in 0..(TABLE_MAX_PAGES - 1) |-> NULL] ]

\* get_row_location with one row too many per page
get_row_location_wide(table, row_num, heap) ==
  LET page_num == row_num \div (ROWS_PER_PAGE + 1)
      row_position_in_page == row_num % ROWS_PER_PAGE
  IN  IF page_num >= TABLE_MAX_PAGES
        THEN [ table |-> table, row_num |-> row_num, page_num |-> page_num,
               offset |-> row_position_in_page * ROW_SIZE,
               allocated |-> {}, wild |-> TRUE ]
      ELSE IF table.pages[page_num] = NULL
        THEN [ table |-> [table EXCEPT !.pages[page_num] = heap],
               row_num |-> row_num, page_num |-> page_num,
               offset |-> row_position_in_page * ROW_SIZE,
               allocated |-> {page_num}, wild |-> FALSE ]
      ELSE [ table |-> table, row_num |-> row_num, page_num |-> page_num,
             offset |-> row_position_in_page * ROW_SIZE,
             allocated |-> {}, wild |-> FALSE ]

\* get_row_location with the page of the next row
get_row_location_next(table, row_num, heap) ==
  LET page_num == (row_num + 1) \div ROWS_PER_PAGE
      row_position_in_page == row_num % ROWS_PER_PAGE
  IN  IF page_num >= TABLE_MAX_PAGES
        THEN [ table |-> table, row_num |-> row_num, page_num |-> page_num,
               offset |-> row_position_in_page * ROW_SIZE,
               allocated |-> {}, wild |-> TRUE ]
      ELSE IF table.pages[page_num] = NULL
        THEN [ table |-> [table EXCEPT !.pages[page_num] = heap],
               row_num |-> row_num, page_num |-> page_num,
               offset |-> row_position_in_page * ROW_SIZE,
               allocated |-> {page_num}, wild |-> FALSE ]
      ELSE [ table |-> table, row_num |-> row_num, page_num |-> page_num,
             offset |-> row_position_in_page * ROW_SIZE,
             allocated |-> {}, wild |-> FALSE ]

\* get_row_location with one row too few per page
get_row_location_short(table, row_num, heap) ==
  LET page_num == row_num \div (ROWS_PER_PAGE - 1)
      row_position_in_page == row_num % (ROWS_PER_PAGE - 1)
  IN  IF page_num >= TABLE_MAX_PAGES
        THEN [ table |-> table, row_num |-> row_num, page_num |-> page_num,
               offset |-> row_position_in_page * ROW_SIZE,
               allocated |-> {}, wild |-> TRUE ]
      ELSE IF table.pages[page_num] = NULL
        THEN [ table |-> [table EXCEPT !.pages[page_num] = heap],
               row_num |-> row_num, page_num |-> page_num,
               offset |-> row_position_in_page * ROW_SIZE,
               allocated |-> {page_num}, wild |-> FALSE ]
      ELSE [ table |-> table, row_num |-> row_num, page_num |-> page_num,
             offset |-> row_position_in_page * ROW_SIZE,
             allocated |-> {}, wild |-> FALSE ]

\* get_row_location that allocates the rows of a page, not PAGE_SIZE bytes
get_row_location_small(table, row_num, heap) ==
  LET page_num == row_num \div ROWS_PER_PAGE
      row_position_in_page == row_num % ROWS_PER_PAGE
  IN  IF page_num >= TABLE_MAX_PAGES
        THEN [ table |-> table, row_num |-> row_num, page_num |-> page_num,
               offset |-> row_position_in_page * ROW_SIZE,
               allocated |-> {}, wild |-> TRUE ]
      ELSE IF table.pages[page_num] = NULL
        THEN [ table |-> [table EXCEPT !.pages[page_num] =
                                   SubSeq(heap, 1, ROWS_PER_PAGE * ROW_SIZE)],
               row_num |-> row_num, page_num |-> page_num,
               offset |-> row_position_in_page * ROW_SIZE,
               allocated |-> {page_num}, wild |-> FALSE ]
      ELSE [ table |-> table, row_num |-> row_num, page_num |-> page_num,
             offset |-> row_position_in_page * ROW_SIZE,
             allocated |-> {}, wild |-> FALSE ]

\* get_row_location with the rows per page rounded up
get_row_location_ceil(table, row_num, heap) ==
  LET page_num == row_num \div (ROWS_PER_PAGE + 1)
      row_position_in_page == row_num % (ROWS_PER_PAGE + 1)
  IN  IF page_num >= TABLE_MAX_PAGES
        THEN [ table |-> table, row_num |-> row_num, page_num |-> page_num,
               offset |-> row_position_in_page * ROW_SIZE,
               allocated |-> {}, wild |-> TRUE ]
      ELSE IF table.pages[page_num] = NULL
        THEN [ table |-> [table EXCEPT !.pages[page_num] = heap],
               row_num |-> row_num, page_num |-> page_num,
               offset |-> row_position_in_page * ROW_SIZE,
               allocated |-> {page_num}, wild |-> FALSE ]
      ELSE [ table |-> table, row_num |-> row_num, page_num |-> page_num,
             offset |-> row_position_in_page * ROW_SIZE,
             allocated |-> {}, wild |-> FALSE ]

\* get_row_location that divides by ROW_SIZE where ROWS_PER_PAGE is meant
get_row_location_by_size(table, row_num, heap) ==
  LET page_num == row_num \div ROW_SIZE
      row_position_in_page == row_num % ROWS_PER_PAGE
  IN  IF page_num >= TABLE_MAX_PAGES
        THEN [ table |-> table, row_num |-> row_num, page_num |-> page_num,
               offset |-> row_position_in_page * ROW_SIZE,
               allocated |-> {}, wild |-> TRUE ]
      ELSE IF table.pages[page_num] = NULL
        THEN [ table |-> [table EXCEPT !.pages[page_num] = heap],
               row_num |-> row_num, page_num |-> page_num,
               offset |-> row_position_in_page * ROW_SIZE,
               allocated |-> {page_num}, wild |-> FALSE ]
      ELSE [ table |-> table, row_num |-> row_num, page_num |-> page_num,
             offset |-> row_position_in_page * ROW_SIZE,
             allocated |-> {}, wild |-> FALSE ]

\* get_row_location(table, row_num).  `heap` is the content of the block a
\* malloc(PAGE_SIZE) made during the call returns.  The result is the table
\* after the call and the location as (page_num, byte offset in the page).
\* pages[page_num] with page_num >= TABLE_MAX_PAGES is an access outside the
\* array: reported as `wild`, the table is left alone.
get_row_location(table, row_num, heap) ==
  LET page_num == row_num \div ROWS_PER_PAGE
      row_position_in_page == row_num % ROWS_PER_PAGE
  IN  IF page_num >= TABLE_MAX_PAGES
        THEN [ table |-> table, row_num |-> row_num, page_num |-> page_num,
               offset |-> row_position_in_page * ROW_SIZE,
               allocated |-> {}, wild |-> TRUE ]
      ELSE IF table.pages[page_num] = NULL
        THEN [ table |-> [table EXCEPT !.pages[page_num] = heap],
               row_num |-> row_num, page_num |-> page_num,
               offset |-> row_position_in_page * ROW_SIZE,
               allocated |-> {page_num}, wild |-> FALSE ]
      ELSE [ table |-> table, row_num |-> row_num, page_num |-> page_num,
             offset |-> row_position_in_page * ROW_SIZE,
             allocated |-> {}, wild |-> FALSE ]

\* what get_row_location returns for each row number a table can hold
row_slots ==
  [ row_num \in 0..(TABLE_MAX_ROWS - 1) |-> get_row_location(new_table, row_num, <<>>) ]

EXECUTE_SUCCESS == "EXECUTE_SUCCESS"
EXECUTE_TABLE_FULL == "EXECUTE_TABLE_FULL"
EXECUTE_NONE == "none"

\* serialize_row(row_to_insert, loc) and `num_rows += 1`, for the location
\* loc that get_row_location returned.  A wild location is outside the
\* table: nothing of the table is written.
insert_at(row_to_insert, loc) ==
  [ result    |-> EXECUTE_SUCCESS,
    table     |-> IF loc.wild
                    THEN [loc.table EXCEPT !.num_rows = @ + 1]
                    ELSE [loc.table EXCEPT
                            !.pages[loc.page_num] =
                               serialize_row(row_to_insert, @, loc.offset),
                            !.num_rows = @ + 1],
    rows      |-> <<>>,
    calls     |-> << <<loc.row_num, loc.page_num>> >>,
    allocated |-> loc.allocated,
    wild      |-> loc.wild ]

\* execute_insert that lets one row past the ceiling
execute_insert_past(row_to_insert, table, heap) ==
  IF table.num_rows > TABLE_MAX_ROWS
    THEN [ result |-> EXECUTE_TABLE_FULL, table |-> table, rows |-> <<>>,
           calls |-> <<>>, allocated |-> {}, wild |-> FALSE ]
    ELSE insert_at(row_to_insert, get_row_location(table, table.num_rows, heap))

\* execute_insert that, on a full table, overwrites the last row
execute_insert_overwrite(row_to_insert, table, heap) ==
  IF table.num_rows >= TABLE_MAX_ROWS
    THEN [ result |-> EXECUTE_TABLE_FULL,
           table |-> [insert_at(row_to_insert,
                                get_row_location(table, table.num_rows - 1, heap)).table
                        EXCEPT !.num_rows = @ - 1],
           rows |-> <<>>, calls |-> <<>>, allocated |-> {}, wild |-> FALSE ]
    ELSE insert_at(row_to_insert, get_row_location(table, table.num_rows, heap))

\* execute_insert that counts the row before it tests the ceiling
execute_insert_counted(row_to_insert, table, heap) ==
  IF table.num_rows >= TABLE_MAX_ROWS
    THEN [ result |-> EXECUTE_TABLE_FULL,
           table |-> [table EXCEPT !.num_rows = @ + 1], rows |-> <<>>,
           calls |-> <<>>, allocated |-> {}, wild |-> FALSE ]
    ELSE insert_at(row_to_insert, get_row_location(table, table.num_rows, heap))

\* execute_insert: the result, the table after the call, and the calls of
\* get_row_location it made (as <<row_num, page_num>>)
execute_insert(row_to_insert, table, heap) ==
  IF table.num_rows >= TABLE_MAX_ROWS
    THEN [ result |-> EXECUTE_TABLE_FULL, table |-> table, rows |-> <<>>,
           calls |-> <<>>, allocated |-> {}, wild |-> FALSE ]
    ELSE insert_at(row_to_insert, get_row_location(table, table.num_rows, heap))

\* an iteration of execute_select's loop that calls serialize_row where
\* deserialize_row is meant: the local row, here all 0, goes into the slot
select_at_swapped(loc) ==
  [ result    |-> EXECUTE_SUCCESS,
    table     |-> IF loc.wild THEN loc.table
                  ELSE [loc.table EXCEPT
                          !.pages[loc.page_num] =
                             serialize_row([ id |-> Fill(0, ID_SIZE),
                                             username |-> Fill(0, USERNAME_SIZE),
                                             email |-> Fill(0, EMAIL_SIZE) ],
                                           @, loc.offset)],
    rows      |-> IF loc.wild THEN <<>>
                  ELSE << [ id |-> Fill(0, ID_SIZE),
                            username |-> Fill(0, USERNAME_SIZE),
                            email |-> Fill(0, EMAIL_SIZE) ] >>,
    calls     |-> << <<loc.row_num, loc.page_num>> >>,
    allocated |-> loc.allocated,
    wild      |-> loc.wild ]

\* one iteration of execute_select's loop: the row read at the location loc
select_at(loc) ==
  [ result    |-> EXECUTE_SUCCESS,
    table     |-> loc.table,
    rows      |-> IF loc.wild THEN <<>>
                  ELSE << deserialize_row(loc.table.pages[loc.page_num], loc.offset) >>,
    calls     |-> << <<loc.row_num, loc.page_num>> >>,
    allocated |-> loc.allocated,
    wild      |-> loc.wild ]

\* two consecutive parts of execute_select's loop, one after the other
select_join(a, b) ==
  [ result    |-> EXECUTE_SUCCESS,
    table     |-> b.table,
    rows      |-> a.rows \o b.rows,
    calls     |-> a.calls \o b.calls,
    allocated |-> a.allocated \cup b.allocated,
    wild      |-> a.wild \/ b.wild ]

\* execute_select's loop for row_num in [lo, hi), as its first half followed
\* by its second half.  The loop is followed up to its first wild access.
RECURSIVE select_loop(_, _, _, _)
select_rest(a, mid, hi, heap) ==
  IF a.wild THEN a ELSE select_join(a, select_loop(a.table, mid, hi, heap))

select_loop(table, lo, hi, heap) ==
  IF hi <= lo
    THEN [ result |-> EXECUTE_SUCCESS, table |-> table, rows |-> <<>>,
           calls |-> <<>>, allocated |-> {}, wild |-> FALSE ]
  ELSE IF hi = lo + 1
    THEN select_at(get_row_location(table, lo, heap))
  ELSE select_rest(select_loop(table, lo, (lo + hi) \div 2, heap),
                   (lo + hi) \div 2, hi, heap)

\* execute_select whose loop runs while row_num <= num_rows
execute_select_inclusive(table, heap) ==
  select_loop(table, 0, table.num_rows + 1, heap)

execute_select(table, heap) == select_loop(table, 0, table.num_rows, heap)

\* execute_statement
execute_statement(statement, table, heap) ==
  IF statement.type = STATEMENT_SELECT
    THEN execute_select(table, heap)
    ELSE execute_insert(statement.row_to_insert, table, heap)

\* ------------------------------------------------------ statement parsing
\* C strings are modelled as the bytes before the terminating 0
strcmp_eq(a, b) == a = b
strncmp_eq(a, b, n) == SubSeq(a, 1, Min(n, Len(a))) = SubSeq(b, 1, Min(n, Len(b)))

IsSpace(c) == c \in {9, 10, 11, 12, 13, 32}
IsDigit(c) == c \in 48..57

\* the least element of a non-empty set of numbers
Least(S) == CHOOSE x \in S : \A y \in S : x <= y

\* first position >= i of buf that holds no white space (Len(buf)+1: none)
skip_space(buf, i) ==
  Least({j \in i..Len(buf) : ~IsSpace(buf[j])} \cup {Max(i, Len(buf) + 1)})

\* first position >= i of buf that holds white space (Len(buf)+1: none)
token_end(buf, i) ==
  Least({j \in i..Len(buf) : IsSpace(buf[j])} \cup {Max(i, Len(buf) + 1)})

\* first position >= i of buf that holds no decimal digit
digits_end(buf, i) ==
  Least({j \in i..Len(buf) : ~IsDigit(buf[j])} \cup {Max(i, Len(buf) + 1)})

\* the number written in decimal by the digits d
RECURSIVE decimal_value(_)
decimal_value(d) ==
  IF d = <<>> THEN 0
  ELSE 10 * decimal_value(SubSeq(d, 1, Len(d) - 1)) + (d[Len(d)] - 48)

\* the object representation of v, or of -v, as stored in a uint32_t
U32Store(v, negative) == IF negative /\ v > 0 THEN U32NegBytes(v) ELSE U32Bytes(v)

\* sscanf's %d: the digits at [k, e) of buf.  ok is FALSE when there is none
\* (a matching failure, or the end of the input).
scan_digits(buf, k, e, negative) ==
  [ ok    |-> e > k,
    value |-> U32Store(decimal_value(SubSeq(buf, k, e - 1)), negative),
    next  |-> e ]

scan_number(buf, k, negative) == scan_digits(buf, k, digits_end(buf, k), negative)

\* sscanf's %d at position j, after the white space: an optional sign, digits
scan_sign(buf, j) ==
  IF j <= Len(buf) /\ buf[j] = 45 THEN scan_number(buf, j + 1, TRUE)
  ELSE IF j <= Len(buf) /\ buf[j] = 43 THEN scan_number(buf, j + 1, FALSE)
  ELSE scan_number(buf, j, FALSE)

\* sscanf's %d at position i
scan_int(buf, i) == scan_sign(buf, skip_space(buf, i))

\* sscanf's %s: the characters at [j, e) of buf.  ok is FALSE when there is
\* none (the end of the input).
scan_token(buf, j, e) == [ ok |-> e > j, value |-> SubSeq(buf, j, e - 1), next |-> e ]

scan_word(buf, j) == scan_token(buf, j, token_end(buf, j))

\* sscanf's %s at position i: skips white space, reads up to the next one
scan_string(buf, i) == scan_word(buf, skip_space(buf, i))

\* sscanf(buffer, "insert %d %s %s", ...) on a buffer that starts with
\* "insert": the conversions made, in order, up to the first that fails
sscanf_3(a1, a2, a3) ==
  [ assigned |-> IF a3.ok THEN 3 ELSE 2,
    id |-> a1.value, username |-> a2.value, email |-> a3.value ]

sscanf_2(buffer, a1, a2) ==
  IF a2.ok THEN sscanf_3(a1, a2, scan_string(buffer, a2.next))
  ELSE [ assigned |-> 1, id |-> a1.value, username |-> <<>>, email |-> <<>> ]

sscanf_1(buffer, a1) ==
  IF a1.ok THEN sscanf_2(buffer, a1, scan_string(buffer, a1.next))
  ELSE [ assigned |-> 0, id |-> <<>>, username |-> <<>>, email |-> <<>> ]

sscanf_insert(buffer) == sscanf_1(buffer, scan_int(buffer, 7))

\* offsetof(Row, username), offsetof(Row, email)
OffsetofUsername == ID_SIZE
OffsetofEmail == ID_SIZE + COLUMN_USERNAME_SIZE

\* the bytes of a Row object up to its tail padding, and back
RowImage(row) == row.id \o row.username \o row.email
RowOfImage(img) ==
  [ id       |-> SubSeq(img, 1, ID_SIZE),
    username |-> SubSeq(img, OffsetofUsername + 1, OffsetofUsername + COLUMN_USERNAME_SIZE),
    email    |-> SubSeq(img, OffsetofEmail + 1, OffsetofEmail + COLUMN_EMAIL_SIZE) ]

\* sscanf's store of a %s token: the token and a terminating 0 are written
\* from byte `at` of the Row on, whatever the size of the array there.
\* Bytes that fall into the tail padding are lost; `overrun` counts the
\* bytes written past the end of the Row (and so of the Statement).
store_string(row, at, tok) ==
  [ row     |-> RowOfImage(Memcpy(RowImage(row), at, tok \o <<0>>,
                                  Min(Len(tok) + 1, ROW_SIZE - at))),
    written |-> Len(tok) + 1,
    overrun |-> Max(0, at + Len(tok) + 1 - SIZEOF_ROW) ]

no_store(row) == [ row |-> row, written |-> 0, overrun |-> 0 ]

\* the stores of sscanf's three conversions, in order
assign_id(a, row) == IF a.assigned >= 1 THEN [row EXCEPT !.id = a.id] ELSE row

assign_username(a, row) ==
  IF a.assigned >= 2 THEN store_string(row, OffsetofUsername, a.username)
  ELSE no_store(row)

stores(s2, s3) ==
  [ row     |-> s3.row,
    written |-> <<s2.written, s3.written>>,
    overrun |-> Max(s2.overrun, s3.overrun) ]

assign_email(a, s2) ==
  IF a.assigned >= 3 THEN stores(s2, store_string(s2.row, OffsetofEmail, a.email))
  ELSE stores(s2, no_store(s2.row))

sscanf_stores(a, row) == assign_email(a, assign_username(a, assign_id(a, row)))

\* ------------------------------------------------------------------ inputs
SELECT_KW == <<115, 101, 108, 101, 99, 116>>
INSERT_KW == <<105, 110, 115, 101, 114, 116>>
EXIT_CMD == <<46, 101, 120, 105, 116>>

\* the byte c repeated n times, as a token of an input line
Token(c, n) == [i \in 1..n |-> c]

RECURSIVE DecimalDigits(_)
DecimalDigits(n) ==
  IF n < 10 THEN <<48 + n>> ELSE DecimalDigits(n \div 10) \o <<48 + (n % 10)>>

InsertLine(id, username, email) ==
  INSERT_KW \o <<32>> \o id \o <<32>> \o username \o <<32>> \o email

\* "insert 1 alice alice@example.com"
InsertAlice == InsertLine(<<49>>, <<97, 108, 105, 99, 101>>, <<97, 108, 105, 99, 101, 64, 101, 120, 97, 109, 112, 108, 101, 46, 99, 111, 109>>)
\* "insert 2 bob bob@example.com"
InsertBob == InsertLine(<<50>>, <<98, 111, 98>>, <<98, 111, 98, 64, 101, 120, 97, 109, 112, 108, 101, 46, 99, 111, 109>>)
\* "insert 4 vvv...v e": a username longer than its column
InsertLongUsername == InsertLine(<<52>>, Token(118, COLUMN_USERNAME_SIZE + 8), <<101>>)
\* "insert 5 w mmm...m": an email longer than its column
InsertLongEmail == InsertLine(<<53>>, <<119>>, Token(109, COLUMN_EMAIL_SIZE + 1))
\* "insert 6 carol": two of the three arguments
InsertTwoArgs == INSERT_KW \o <<32, 54, 32>> \o <<99, 97, 114, 111, 108>>
\* "update"
UpdateLine == <<117, 112, 100, 97, 116, 101>>
\* ".help"
HelpCmd == <<46, 104, 101, 108, 112>>

\* the input lines a run draws from
Lines ==
  { SELECT_KW, InsertAlice, InsertBob, InsertLongUsername, InsertLongEmail,
    InsertTwoArgs, UpdateLine, EXIT_CMD, HelpCmd }

\* the input lines of a run against a table that is all but full
FullLines == { SELECT_KW, InsertAlice, InsertTwoArgs, UpdateLine, EXIT_CMD, HelpCmd }

\* the line that inserts the n-th row of an already filled table
FillerLine(n) == InsertLine(DecimalDigits(n), <<114, 111, 119>>, <<114, 64, 120>>)

\* bytes an uninitialized object may hold
Garbage == {0, 170}

\* what a block returned by malloc(PAGE_SIZE) may hold
HeapBlocks == { Fill(g, PAGE_SIZE) : g \in Garbage }

\* sscanf_insert of the lines of Lines, computed once
Scanned ==
  [buffer \in {l \in Lines : strncmp_eq(l, INSERT_KW, 6)} |-> sscanf_insert(buffer)]

scan_of(buffer) ==
  IF buffer \in DOMAIN Scanned THEN Scanned[buffer] ELSE sscanf_insert(buffer)

\* prepare_statement's insert branch, given sscanf's conversions a and the
\* stores s they made
prepare_insert(a, s) ==
  [ result    |-> IF a.assigned < 3 THEN PREPARE_SYNTAX_ERROR ELSE PREPARE_SUCCESS,
    statement |-> [type |-> STATEMENT_INSERT, row_to_insert |-> s.row],
    written   |-> s.written,
    overrun   |-> s.overrun ]

prepare_scanned(a, statement) ==
  prepare_insert(a, sscanf_stores(a, statement.row_to_insert))

\* prepare_statement(input_buffer, &statement): the result, the statement
\* after the call, the bytes sscanf wrote at username and at email, and the
\* bytes it wrote past the end of the statement.
prepare_statement(buffer, statement) ==
  IF strcmp_eq(buffer, SELECT_KW)
    THEN [ result |-> PREPARE_SUCCESS,
           statement |-> [statement EXCEPT !.type = STATEMENT_SELECT],
           written |-> <<0, 0>>, overrun |-> 0 ]
  ELSE IF strncmp_eq(buffer, INSERT_KW, 6)
    THEN prepare_scanned(scan_of(buffer), statement)
  ELSE [ result |-> PREPARE_UNRECOGNIZED_STATEMENT, statement |-> statement,
         written |-> <<0, 0>>, overrun |-> 0 ]

\* ------------------------------------------------------------------- state
VARIABLES
  table,      \* Table: num_rows and pages (NULL or PAGE_SIZE bytes each)
  statement,  \* main's `Statement statement`
  status,     \* "running", "exit_success", "exit_failure" or "crashed"
  printed,    \* the messages the last iteration of the REPL printed
  rows,       \* the rows the last iteration's select handed to print_row
  last,       \* what the last iteration of the REPL did
  appended,   \* the rows of the appends that returned EXECUTE_SUCCESS
  nlines      \* input lines read

vars == << table, statement, status, printed, rows, last, appended, nlines >>

\* an iteration that prepared and executed nothing.  `scans` counts the
\* selects executed in a row up to and including the iteration.
NoStep ==
  [ buffer |-> <<>>, prepare |-> PREPARE_NONE, executed |-> FALSE,
    type |-> STATEMENT_INDETERMINATE, execute |-> EXECUTE_NONE,
    calls |-> <<>>, allocated |-> {}, written |-> <<0, 0>>, overrun |-> 0,
    wild |-> FALSE, scans |-> 0 ]

\* `Statement statement;` before anything is assigned: filled with g
fresh_statement(g) ==
  [ type |-> STATEMENT_INDETERMINATE,
    row_to_insert |-> RowOfImage(Fill(g, ROW_SIZE)) ]

\* main after one more line, an insert whose statement is p.statement
run_execute(st, p, e) ==
  [ statement |-> p.statement, table |-> e.table,
    appended |-> IF e.result = EXECUTE_SUCCESS
                   THEN Append(st.appended, p.statement.row_to_insert)
                   ELSE st.appended ]

run_prepared(st, p, heap) ==
  run_execute(st, p, execute_insert(p.statement.row_to_insert, st.table, heap))

\* The statement and table after the lines FillerLine(lo) .. FillerLine(hi-1)
\* have been prepared and executed, as the first half of the lines followed
\* by the second (the test only fixes the order of the two computations).
RECURSIVE run_inserts(_, _, _, _)
run_rest(half, mid, hi, heap) ==
  IF half.table.num_rows >= 0 THEN run_inserts(half, mid, hi, heap) ELSE half

run_inserts(st, lo, hi, heap) ==
  IF hi <= lo THEN st
  ELSE IF hi = lo + 1
    THEN run_prepared(st, prepare_statement(FillerLine(lo), st.statement), heap)
  ELSE run_rest(run_inserts(st, lo, (lo + hi) \div 2, heap), (lo + hi) \div 2, hi, heap)

\* main before the first line is read (st is new_table with a fresh
\* statement), or after it has read and executed some lines
InitAt(st) ==
  /\ table = st.table
  /\ statement = st.statement
  /\ appended = st.appended
  /\ status = "running"
  /\ printed = <<>>
  /\ rows = <<>>
  /\ last = NoStep
  /\ nlines = 0

InitAfter(starts) ==
  \E n \in starts, heap \in HeapBlocks :
    InitAt(run_inserts([ statement |-> fresh_statement(heap[1]),
                         table |-> new_table, appended |-> <<>> ], 0, n, heap))

\* read_input: getline reports the end of the input or an error
ReadError ==
  /\ status = "running" /\ nlines < MaxLines
  /\ status' = "exit_failure"
  /\ printed' = <<"Error reading input">>
  /\ rows' = <<>>
  /\ last' = NoStep
  /\ nlines' = nlines + 1
  /\ UNCHANGED << table, statement, appended >>

\* what prepare_statement did in the iteration
StepOf(buffer, p) ==
  [NoStep EXCEPT !.buffer = buffer, !.prepare = p.result, !.written = p.written,
                 !.overrun = p.overrun, !.type = p.statement.type]

\* the rest of the iteration once execute_statement has returned e.  Bytes
\* written outside an object (past the statement, or at a wild location) may
\* bring the process down.
Executed(buffer, p, e) ==
  \E crash \in IF p.overrun > 0 \/ e.wild THEN BOOLEAN ELSE {FALSE} :
    IF crash
      THEN /\ status' = "crashed"
           /\ printed' = <<>>
           /\ rows' = <<>>
           /\ last' = StepOf(buffer, p)
           /\ UNCHANGED << table, appended >>
      ELSE /\ status' = "running"
           /\ printed' = (IF p.result = PREPARE_SYNTAX_ERROR
                            THEN <<"Syntax error.">> ELSE <<>>) \o <<"Executed.">>
           /\ rows' = e.rows
           /\ table' = e.table
           /\ appended' = IF p.statement.type = STATEMENT_INSERT
                             /\ e.result = EXECUTE_SUCCESS
                            THEN Append(appended, p.statement.row_to_insert)
                            ELSE appended
           /\ last' = [StepOf(buffer, p) EXCEPT
                         !.executed = TRUE, !.execute = e.result, !.calls = e.calls,
                         !.allocated = e.allocated, !.wild = e.wild,
                         !.scans = IF p.statement.type = STATEMENT_SELECT
                                     THEN last.scans + 1 ELSE 0]

\* the rest of the iteration once prepare_statement has returned p
Prepared(buffer, p, heap) ==
  /\ statement' = p.statement
  /\ IF p.result = PREPARE_UNRECOGNIZED_STATEMENT
       THEN /\ status' = "running"
            /\ printed' = <<"Unrecognized keyword at start">>
            /\ rows' = <<>>
            /\ last' = StepOf(buffer, p)
            /\ UNCHANGED << table, appended >>
       ELSE Executed(buffer, p, execute_statement(p.statement, table, heap))

\* main without the `continue` after an unrecognized command: the line goes
\* on to prepare_statement
MetaCommand_fallthrough(buffer) ==
  /\ status = "running" /\ nlines < MaxLines
  /\ buffer # <<>> /\ buffer[1] = 46
  /\ nlines' = nlines + 1
  /\ IF strcmp_eq(buffer, EXIT_CMD)
       THEN /\ status' = "exit_success" /\ printed' = <<>>
            /\ rows' = <<>>
            /\ last' = [NoStep EXCEPT !.buffer = buffer]
            /\ UNCHANGED << table, statement, appended >>
       ELSE \E heap \in HeapBlocks :
              Prepared(buffer, prepare_statement(buffer, statement), heap)

\* a line that starts with '.': do_meta_command
MetaCommand(buffer) ==
  /\ status = "running" /\ nlines < MaxLines
  /\ buffer # <<>> /\ buffer[1] = 46
  /\ IF strcmp_eq(buffer, EXIT_CMD)
       THEN status' = "exit_success" /\ printed' = <<>>
       ELSE status' = "running" /\ printed' = <<"Unrecognized command">>
  /\ rows' = <<>>
  /\ last' = [NoStep EXCEPT !.buffer = buffer]
  /\ nlines' = nlines + 1
  /\ UNCHANGED << table, statement, appended >>

\* any other line: prepare_statement, then execute_statement unless the
\* statement is unrecognized.  `heap` is what a block that malloc returns
\* during the iteration holds.
Command(buffer, heap) ==
  /\ status = "running" /\ nlines < MaxLines
  /\ ~(buffer # <<>> /\ buffer[1] = 46)
  /\ nlines' = nlines + 1
  /\ Prepared(buffer, prepare_statement(buffer, statement), heap)

NextOn(lines) ==
  \/ ReadError
  \/ \E buffer \in lines : MetaCommand(buffer)
  \/ \E buffer \in lines, heap \in HeapBlocks : Command(buffer, heap)

\* row counts of the tables a run starts from: empty, one row short of the
\* end of the first page, and the first page full
StartRows == {0, ROWS_PER_PAGE - 1, ROWS_PER_PAGE}

Init == InitAfter(StartRows)
Next == NextOn(Lines)
Spec == Init /\ [][Next]_vars

\* runs against a table one row short of full
InitFull == InitAfter({TABLE_MAX_ROWS - 1})
NextFull == NextOn(FullLines)
SpecFull == InitFull /\ [][NextFull]_vars

\* ---------------------------------------------------------------------
\* Properties

\* C1: in every state reached from a new table by inserts and selects,
\* num_rows <= TABLE_MAX_ROWS, and TABLE_MAX_ROWS = ROWS_PER_PAGE *
\* TABLE_MAX_PAGES = 1400.
C1_RowCeiling ==
  /\ table.num_rows <= TABLE_MAX_ROWS
  /\ TABLE_MAX_ROWS = ROWS_PER_PAGE * TABLE_MAX_PAGES
  /\ TABLE_MAX_ROWS = 1400

\* the table is at the ceiling and an insert has just been turned away
C1_Witness ==
  /\ table.num_rows = 1400
  /\ last.type = STATEMENT_INSERT
  /\ last.execute = EXECUTE_TABLE_FULL

\* C2: an insert executed when num_rows >= 1400 returns EXECUTE_TABLE_FULL and
\* changes nothing of the table: num_rows, the allocated pages and the bytes
\* of every page are the same after it; after 1400 successful inserts the
\* 1401st returns EXECUTE_TABLE_FULL and num_rows stays 1400.
C2_FullInsertRejected ==
  [][ (table.num_rows >= 1400 /\ last'.executed /\ last'.type = STATEMENT_INSERT)
        => /\ last'.execute = EXECUTE_TABLE_FULL
           /\ table' = table
           /\ appended' = appended
           /\ (Len(appended) = 1400 => table'.num_rows = 1400) ]_vars

\* the 1401st insert, after 1400 that succeeded, was turned away
C2_Witness ==
  /\ Len(appended) = 1400
  /\ last.executed
  /\ last.execute = EXECUTE_TABLE_FULL
  /\ last.calls = <<>>

\* C3: after the successful inserts r0 .. rk, in that order, a select hands
\* exactly r0 .. rk to print_row in that order, also when selects and inserts
\* alternate and when the rows lie on several pages.
C3_SelectInInsertionOrder ==
  (last.executed /\ last.type = STATEMENT_SELECT) => rows = appended

\* a select over rows of two pages, the last of them inserted after an
\* earlier line of the run
C3_Witness ==
  /\ last.executed /\ last.type = STATEMENT_SELECT
  /\ nlines = MaxLines
  /\ Len(rows) > ROWS_PER_PAGE
  /\ rows[Len(rows)] = deserialize_row(table.pages[1], 0)
  /\ rows[Len(rows)].username[1] = 97

\* C4: for a row whose username and email fit their fields, deserialize_row
\* of the slot that serialize_row wrote gives the same id, the same 32
\* username bytes and the same 255 email bytes, whatever the slot held.
C4_RoundTrip ==
  ( /\ last.executed /\ last.type = STATEMENT_INSERT
    /\ last.execute = EXECUTE_SUCCESS
    /\ last.written[1] <= USERNAME_SIZE /\ last.written[2] <= EMAIL_SIZE )
  => /\ deserialize_row(table.pages[(table.num_rows - 1) \div ROWS_PER_PAGE],
                        ((table.num_rows - 1) % ROWS_PER_PAGE) * ROW_SIZE)
          = statement.row_to_insert
     /\ Len(statement.row_to_insert.id) = 4
     /\ Len(statement.row_to_insert.username) = 32
     /\ Len(statement.row_to_insert.email) = 255

\* a parsed row was written over a slot that held bytes other than 0
C4_Witness ==
  /\ last.executed /\ last.type = STATEMENT_INSERT
  /\ last.execute = EXECUTE_SUCCESS
  /\ last.prepare = PREPARE_SUCCESS
  /\ last.written[1] <= USERNAME_SIZE /\ last.written[2] <= EMAIL_SIZE
  /\ table.pages[(table.num_rows - 1) \div ROWS_PER_PAGE][PAGE_SIZE] = 170
  /\ statement.row_to_insert.username[1] # 170

\* C5: serialize_row writes the id at bytes [0,4) of the slot, the username
\* field at [4,36) and the email field at [36,291); the three ranges are
\* disjoint and cover the 291 bytes of the row; no byte outside the slot is
\* written.
C5_SlotLayout ==
  [][ (last'.executed /\ last'.type = STATEMENT_INSERT
         /\ last'.execute = EXECUTE_SUCCESS)
        => LET page_num == table.num_rows \div ROWS_PER_PAGE
               slot == (table.num_rows % ROWS_PER_PAGE) * ROW_SIZE
           IN  /\ ID_OFFSET = 0 /\ ID_OFFSET + ID_SIZE = 4
               /\ USERNAME_OFFSET = 4 /\ USERNAME_OFFSET + USERNAME_SIZE = 36
               /\ EMAIL_OFFSET = 36 /\ EMAIL_OFFSET + EMAIL_SIZE = 291
               /\ ROW_SIZE = 291
               /\ SubSeq(table'.pages[page_num], slot + 1, slot + 4)
                    = statement'.row_to_insert.id
               /\ SubSeq(table'.pages[page_num], slot + 5, slot + 36)
                    = statement'.row_to_insert.username
               /\ SubSeq(table'.pages[page_num], slot + 37, slot + 291)
                    = statement'.row_to_insert.email
               /\ \E before \in IF table.pages[page_num] = NULL
                                  THEN HeapBlocks ELSE {table.pages[page_num]} :
                    /\ Len(table'.pages[page_num]) = Len(before)
                    /\ SubSeq(table'.pages[page_num], 1, slot)
                         = SubSeq(before, 1, slot)
                    /\ SubSeq(table'.pages[page_num], slot + 292, Len(before))
                         = SubSeq(before, slot + 292, Len(before))
               /\ \A q \in DOMAIN table.pages :
                    q # page_num => table'.pages[q] = table.pages[q] ]_vars

\* a row was written into a slot that has a slot before it and one after it
C5_Witness ==
  /\ last.executed /\ last.type = STATEMENT_INSERT
  /\ last.execute = EXECUTE_SUCCESS
  /\ last.calls = << <<1, 0>> >>
  /\ SubSeq(table.pages[0], ROW_SIZE + 5, ROW_SIZE + 36)
       = statement.row_to_insert.username

\* C6: a page is allocated only once a row of it has been written or read;
\* row 13 is on page 0 and row 14 on page 1, and page 1 is not allocated
\* while num_rows <= 14.
C6_LazyPages ==
  /\ \A p \in DOMAIN table.pages :
       table.pages[p] # NULL => 14 * p < table.num_rows
  /\ \A i \in 1..Len(last.calls) :
       /\ last.calls[i][1] = 13 => last.calls[i][2] = 0
       /\ last.calls[i][1] = 14 => last.calls[i][2] = 1
  /\ last.allocated \subseteq {last.calls[i][2] : i \in 1..Len(last.calls)}
  /\ table.num_rows <= 14 => table.pages[1] = NULL

\* the insert of row 14 allocated page 1
C6_Witness ==
  /\ last.calls = << <<14, 1>> >>
  /\ last.allocated = {1}
  /\ table.pages[1] # NULL

\* C7: every call of get_row_location made by an insert or a select has
\* page_num = row_num / 14 < 100: the 100 entries of pages are not indexed
\* out of bounds.
C7_PageIndexInBounds ==
  /\ ~last.wild
  /\ \A i \in 1..Len(last.calls) :
       /\ last.calls[i][2] = last.calls[i][1] \div 14
       /\ last.calls[i][2] < 100
       /\ last.calls[i][2] \in DOMAIN table.pages

\* a select over a full table has called get_row_location on row 1399
C7_Witness ==
  /\ last.type = STATEMENT_SELECT
  /\ Len(last.calls) = TABLE_MAX_ROWS
  /\ last.calls[TABLE_MAX_ROWS] = <<1399, 99>>

\* C8 as stated: every byte of a page that get_row_location has just
\* allocated is 0 until an insert writes it.
C8_NewPageZeroed ==
  [][ \A p \in DOMAIN table.pages :
        (table.pages[p] = NULL /\ table'.pages[p] # NULL)
          => \A i \in 1..Len(table'.pages[p]) :
               table'.pages[p][i] # 0
                 => /\ i > (table.num_rows % ROWS_PER_PAGE) * ROW_SIZE
                    /\ i <= (table.num_rows % ROWS_PER_PAGE) * ROW_SIZE + ROW_SIZE ]_vars

\* C8, amended: a page that get_row_location has just allocated is PAGE_SIZE
\* bytes that hold what the block malloc returned held, 0 or not, until an
\* insert writes them.
C8_NewPageHoldsBlock ==
  [][ \A p \in DOMAIN table.pages :
        (table.pages[p] = NULL /\ table'.pages[p] # NULL)
          => /\ Len(table'.pages[p]) = PAGE_SIZE
             /\ \E block \in HeapBlocks :
                  /\ SubSeq(table'.pages[p], 1,
                            (table.num_rows % ROWS_PER_PAGE) * ROW_SIZE)
                       = SubSeq(block, 1, (table.num_rows % ROWS_PER_PAGE) * ROW_SIZE)
                  /\ SubSeq(table'.pages[p],
                            (table.num_rows % ROWS_PER_PAGE) * ROW_SIZE + ROW_SIZE + 1,
                            PAGE_SIZE)
                       = SubSeq(block,
                                (table.num_rows % ROWS_PER_PAGE) * ROW_SIZE + ROW_SIZE + 1,
                                PAGE_SIZE) ]_vars

\* a page allocated by the last insert holds bytes that are not 0 and that
\* no insert wrote
C8_Witness ==
  /\ last.allocated # {}
  /\ \A p \in last.allocated :
       /\ table.pages[p] # NULL
       /\ table.pages[p][PAGE_SIZE] # 0

\* C9: a line that prepare_statement does not prepare (an insert with fewer
\* than three arguments, an unrecognized keyword) does not reach
\* execute_statement and leaves num_rows and the stored rows as they were.
C9_UnpreparedNotExecuted ==
  [][ last'.prepare \in {PREPARE_SYNTAX_ERROR, PREPARE_UNRECOGNIZED_STATEMENT}
        => (~last'.executed /\ table' = table) ]_vars

\* C10: for every insert line at most 32 bytes are written into the username
\* field and at most 255 into the email field, so that no byte outside the
\* field is written.
C10_FieldsWithinCapacity ==
  /\ last.written[1] <= 32
  /\ last.written[2] <= 255
  /\ last.overrun = 0

\* C11: an EXECUTE_TABLE_FULL result of execute_insert is handed back to
\* main and shown to the user as a table-full message: an insert turned away
\* because the table is full is not reported as executed.
C11_TableFullReported ==
  last.execute = EXECUTE_TABLE_FULL
    => \A i \in 1..Len(printed) : printed[i] # "Executed."

\* C12: in every step num_rows stays the same or grows by exactly 1, and it
\* grows only through an insert that returns EXECUTE_SUCCESS; it never
\* decreases, and once it is 1400 it is 1400 in every later state.
C12_RowCountMonotone ==
  [][ /\ table'.num_rows \in {table.num_rows, table.num_rows + 1}
      /\ table'.num_rows = table.num_rows + 1
           => /\ last'.executed /\ last'.type = STATEMENT_INSERT
              /\ last'.execute = EXECUTE_SUCCESS
              /\ Len(appended') = Len(appended) + 1
      /\ (last'.executed /\ last'.execute = EXECUTE_SUCCESS
            /\ last'.type = STATEMENT_INSERT)
           => table'.num_rows = table.num_rows + 1
      /\ table.num_rows = 1400 => table'.num_rows = 1400 ]_vars

\* the table became full and two further lines, the last of them an insert,
\* left it full
C12_Witness ==
  /\ table.num_rows = 1400
  /\ nlines = 3
  /\ last.type = STATEMENT_INSERT /\ last.executed
  /\ Len(appended) = 1400

\* C13: two selects with no insert between them hand the same rows to
\* print_row, and a select leaves num_rows and the bytes of every stored row
\* as they were.
C13_ScanIdempotent ==
  [][ (last'.executed /\ last'.type = STATEMENT_SELECT)
        => /\ table' = table
           /\ appended' = appended
           /\ Len(rows') = table.num_rows
           /\ (last.executed /\ last.type = STATEMENT_SELECT) => rows' = rows ]_vars

\* the second of two selects in a row, over rows of two pages
C13_Witness ==
  /\ last.executed /\ last.type = STATEMENT_SELECT
  /\ last.scans >= 2
  /\ Len(rows) > ROWS_PER_PAGE

\* C14: get_row_location is not called for a read with row_num >= num_rows:
\* a select reads the rows 0 .. num_rows - 1, each 0 <= row_num < num_rows;
\* it is called for a write only by execute_insert and only with
\* row_num = num_rows, before num_rows is incremented.
C14_RowIndexInUse ==
  /\ (last.executed /\ last.type = STATEMENT_SELECT)
       => /\ Len(last.calls) = table.num_rows
          /\ \A i \in 1..Len(last.calls) :
               /\ last.calls[i][1] = i - 1
               /\ 0 <= last.calls[i][1] /\ last.calls[i][1] < table.num_rows
  /\ (last.executed /\ last.type = STATEMENT_INSERT)
       => IF last.execute = EXECUTE_SUCCESS
            THEN /\ Len(last.calls) = 1
                 /\ last.calls[1][1] = table.num_rows - 1
            ELSE last.calls = <<>>
  /\ ~last.executed => last.calls = <<>>

\* a select has read every row of a table whose last row is the last slot
\* of page 0
C14_Witness ==
  /\ last.executed /\ last.type = STATEMENT_SELECT
  /\ table.num_rows = ROWS_PER_PAGE
  /\ last.calls[ROWS_PER_PAGE] = <<ROWS_PER_PAGE - 1, 0>>
  /\ table.pages[1] = NULL

\* C15: an insert that returns EXECUTE_SUCCESS with num_rows = n writes the
\* whole 291-byte encoding of the row into slot n, makes num_rows n + 1 and
\* changes nothing else: the bytes of every row below n are as before.
C15_NoPartialWrite ==
  [][ (last'.executed /\ last'.type = STATEMENT_INSERT
         /\ last'.execute = EXECUTE_SUCCESS)
        => /\ table'.num_rows = table.num_rows + 1
           /\ SubSeq(table'.pages[table.num_rows \div 14],
                     (table.num_rows % 14) * 291 + 1,
                     (table.num_rows % 14) * 291 + 291)
                = statement'.row_to_insert.id
                    \o statement'.row_to_insert.username
                    \o statement'.row_to_insert.email
           /\ Len(statement'.row_to_insert.id
                    \o statement'.row_to_insert.username
                    \o statement'.row_to_insert.email) = 291
           /\ \A i \in 0..(table.num_rows - 1) :
                SubSeq(table'.pages[i \div 14], (i % 14) * 291 + 1,
                       (i % 14) * 291 + 291)
                  = SubSeq(table.pages[i \div 14], (i % 14) * 291 + 1,
                           (i % 14) * 291 + 291)
           /\ appended' = Append(appended, statement'.row_to_insert) ]_vars

\* row 15 was written whole into the second slot of page 1, after the rows
\* of page 0 and the first row of page 1
C15_Witness ==
  /\ last.executed /\ last.type = STATEMENT_INSERT
  /\ last.execute = EXECUTE_SUCCESS
  /\ table.num_rows = ROWS_PER_PAGE + 2
  /\ deserialize_row(table.pages[1], ROW_SIZE) = appended[ROWS_PER_PAGE + 2]

\* C16: for every row number i < 1400 the slot that get_row_location
\* computes lies inside its page, (i % 14) * 291 + 291 <= 4096, and the slots
\* of two different row numbers below 1400 never overlap in a page.
C16_SlotsInsidePage ==
  /\ \A i \in 0..1399 :
       LET slot == row_slots[i]
       IN  /\ slot.offset = (i % 14) * 291
           /\ slot.offset + 291 <= 4096
           /\ slot.page_num = i \div 14
           /\ i < 1399 /\ row_slots[i + 1].page_num = slot.page_num
                => slot.offset + 291 <= row_slots[i + 1].offset
  \* the offsets are multiples of 291: two slots of a page overlap only if
  \* they are the same slot
  /\ Cardinality({ <<row_slots[i].page_num, row_slots[i].offset>> : i \in 0..1399 })
       = 1400
  /\ \A k \in 1..Len(last.calls) :
       /\ row_slots[last.calls[k][1]].page_num = last.calls[k][2]
       /\ row_slots[last.calls[k][1]].offset + 291
            <= Len(table.pages[last.calls[k][2]])
  /\ \A p \in DOMAIN table.pages :
       table.pages[p] # NULL => Len(table.pages[p]) = 4096

\* row 1399 was written into the last slot of page 99
C16_Witness ==
  /\ last.calls = << <<1399, 99>> >>
  /\ row_slots[1399].offset = (ROWS_PER_PAGE - 1) * ROW_SIZE
  /\ Len(table.pages[99]) = PAGE_SIZE
  /\ SubSeq(table.pages[99], row_slots[1399].offset + 1,
            row_slots[1399].offset + ID_SIZE) = statement.row_to_insert.id

\* C17: in every reachable state every row number i < num_rows lies on an
\* allocated page, pages[i / 14] is not NULL, so that a select allocates no
\* page and leaves the set of allocated pages as it was.
C17_RowsOnAllocatedPages ==
  /\ \A i \in 0..(table.num_rows - 1) : table.pages[i \div 14] # NULL
  /\ (last.executed /\ last.type = STATEMENT_SELECT)
       => /\ last.allocated = {}
          /\ \A k \in 1..Len(last.calls) : table.pages[last.calls[k][2]] # NULL
          /\ \A p \in DOMAIN table.pages :
               table.pages[p] # NULL
                 => \E k \in 1..Len(last.calls) : last.calls[k][2] = p

\* a select over the rows of pages 0 and 1 that allocated nothing
C17_Witness ==
  /\ last.executed /\ last.type = STATEMENT_SELECT
  /\ last.allocated = {}
  /\ table.num_rows = ROWS_PER_PAGE + 1
  /\ table.pages[1] # NULL
  /\ table.pages[2] = NULL

====
